---- MODULE Spec2Model ----
(***************************************************************************)
(* Model of the plan executor, the review operation, the plan parsers and  *)
(* the context compilers of pr-agent.                                      *)
(*                                                                         *)
(*   apply_llm_plan_to_code  file_modification/plan_file_application.py    *)
(*   apply_plan_steps        file_modification/plan_application.py         *)
(*   self_review_code        llm_plan/llm.py                               *)
(*   parse_plan_generalized  file_modification/plan_file_application.py    *)
(*                           and file_modification/plan_parsing.py         *)
(*   preprocess_codebase     preprocessing/file_preprocess.py              *)
(*   lightly_preprocess_files, generate_plan                               *)
(*   run_agent_flow          agent_flow.py                                 *)
(*                                                                         *)
(* Each component has its own specification (Spec, SpecReview, SpecParse,  *)
(* SpecCompile, SpecFlow); the variables of the other components stay      *)
(* fixed in it.                                                            *)
(*                                                                         *)
(* A text is a sequence of tokens: "F" is a markdown fence (three          *)
(* backticks with its optional lower-case language tag), "N" is a newline, *)
(* "x" is a run of generated code and "o" a run of code that was in the    *)
(* repository before the plan. The step descriptions only reach the        *)
(* prompt text, whose effect on the completion is a free choice here, so   *)
(* a step is its action and its file.                                      *)
(***************************************************************************)
EXTENDS Integers, Sequences, FiniteSets, TLC

VARIABLES
    executor,        \* which of the two executors runs the plan
    steps,           \* the parsed plan handed to the executor
    sandbox,         \* files of the sandbox: path -> text
    current_code,    \* files read before the plan is applied: path -> text
    i,               \* position of the executor's for loop (1-based)
    pc,              \* where the executor is inside the current iteration
    original_code,   \* local of the iteration: content put in the prompt
    new_code,        \* local of the iteration: generated content
    modified_files,  \* apply_llm_plan_to_code's result: path -> text
    trace,           \* collaborator calls and log lines, in order
    reply,           \* self_review_code: what the review completion call did
    review,          \* self_review_code: the returned review
    rpc,             \* self_review_code: "call" before, "returned" after
    parser,          \* which parse_plan_generalized parses the plan text
    context,         \* parse_plan_generalized: the codebase context argument
    plan_text,       \* parse_plan_generalized: the step records of the text
    parsed,          \* parse_plan_generalized: the returned list of steps
    ppc,             \* parse: "call", "returned", "raised" or "handed"
    compiler,        \* which function compiles the context
    tokenizer,       \* "tiktoken" when the import succeeded, else "none"
    code_map,        \* the files to compile, in the mapping's order
    stack_len,       \* run_agent_flow: length of the stack knowledge text
    ci,              \* position of the compiler's for loop (1-based)
    file_blocks,     \* blocks of the files taken so far
    skipped_files,   \* preprocess_codebase: paths left out so far
    total_chars,     \* preprocess_codebase: characters of the files taken
    digest,          \* the compiled context, as its segments
    handed,          \* what generate_plan puts in the prompt, as segments
    dependency_graph,\* preprocess_codebase: importer -> resolved imports
    cpc,             \* compile: "loop", "returned" or "handed"
    fpc,             \* run_agent_flow: the entry the generator is suspended at
    live,            \* the E2B sandbox: "none", "running", "orphaned", "killed"
    enable_modifications, \* run_agent_flow's parameter
    github_token,    \* TRUE when a token is provided
    stream,          \* the entries the flow has yielded, in order
    extracted_files, \* run_agent_flow: what extract_modified_files returned
    remote           \* what was committed, pushed and opened on GitHub

execVars == <<executor, steps, sandbox, current_code, i, pc, original_code,
              new_code, modified_files, trace>>
reviewVars == <<reply, review, rpc>>
parseVars == <<parser, context, plan_text, parsed, ppc>>
compileVars == <<compiler, tokenizer, code_map, stack_len, ci, file_blocks,
                 skipped_files, total_chars, digest, handed, dependency_graph, cpc>>
flowVars == <<fpc, live, enable_modifications, github_token, stream,
              extracted_files, remote>>
vars == <<executor, steps, sandbox, current_code, i, pc, original_code,
          new_code, modified_files, trace, reply, review, rpc,
          parser, context, plan_text, parsed, ppc,
          compiler, tokenizer, code_map, stack_len, ci, file_blocks,
          skipped_files, total_chars, digest, handed, dependency_graph, cpc,
          fpc, live, enable_modifications, github_token, stream,
          extracted_files, remote>>

----------------------------------------------------------------------------
(* Bounds and input sets *)

MaxSteps == 3

Paths == {"a", "b"}

Actions == {"create", "modify", "delete", "rename"}

Executors == {"apply_llm_plan_to_code", "apply_plan_steps"}

Original == <<"o">>

\* the files of the cloned repository, each read before the plan is applied
InitialFiles == {"a"}

\* completions the generation collaborator may return
LLMOutputs == { <<"x">>, <<"F">>, <<"F", "N", "x", "N", "F">> }

StepRecords == [action : Actions, file : Paths]

Plans == UNION { [1..n -> StepRecords] : n \in 1..MaxSteps }

EmptyMap == [p \in {} |-> <<>>]

\* nothing committed, pushed or opened
NoRemote == [committed |-> EmptyMap, pushed |-> FALSE, pr |-> FALSE]

Put(m, p, text) == [q \in DOMAIN m \cup {p} |-> IF q = p THEN text ELSE m[q]]

Remove(m, p) == [q \in DOMAIN m \ {p} |-> m[q]]

----------------------------------------------------------------------------
(* Text helpers *)

RECURSIVE LStrip(_)
LStrip(s) == IF s # <<>> /\ Head(s) = "N" THEN LStrip(Tail(s)) ELSE s

RECURSIVE RStrip(_)
RStrip(s) ==
    IF s # <<>> /\ s[Len(s)] = "N" THEN RStrip(SubSeq(s, 1, Len(s) - 1)) ELSE s

IsFence(t) == t = "F"

IsNotFence(t) == t # "F"

HasFence(s) == \E k \in DOMAIN s : IsFence(s[k])

\* plan_file_application.py 73-74: when a fence occurs anywhere, every fence
\* (with its tag) is removed and the result is stripped of outer whitespace
StripMarkdown(s) ==
    IF HasFence(s) THEN RStrip(LStrip(SelectSeq(s, IsNotFence))) ELSE s

\* plan_application.py 60-62 and 84-86: only when the text starts with a
\* fence, one opening fence line and one closing fence line are removed
StripOpening(s) ==
    IF Len(s) >= 2 /\ s[1] = "F" /\ s[2] = "N" THEN SubSeq(s, 3, Len(s)) ELSE s

StripClosing(s) ==
    LET n == Len(s) IN
    IF n >= 2 /\ s[n - 1] = "N" /\ s[n] = "F" THEN SubSeq(s, 1, n - 2)
    ELSE IF n >= 3 /\ s[n - 2] = "N" /\ s[n - 1] = "F" /\ s[n] = "N"
         THEN Append(SubSeq(s, 1, n - 3), "N")
    ELSE s

StripWrapping(s) ==
    IF s # <<>> /\ IsFence(s[1]) THEN StripClosing(StripOpening(s)) ELSE s

----------------------------------------------------------------------------
(* Trace entries *)

\* an entry of the trace: a collaborator call (op "load", "llm", "read",
\* "write", "delete", "review") with its outcome, or a log line. `text` is the
\* content written, or the current content shown to the model; `score` is the
\* score a review call returned and 0 elsewhere
Ev(step, op, path, ok, text) ==
    [step |-> step, op |-> op, path |-> path, ok |-> ok, text |-> text,
     score |-> 0]

Log(step, kind, path) == Ev(step, kind, path, TRUE, <<>>)

LogKinds == {"log_header", "log_step", "log_deleting", "log_unknown",
             "log_applying", "log_failed", "log_created", "log_modified",
             "log_deleted", "log_completed"}

IsLog(e) == e.op \in LogKinds

----------------------------------------------------------------------------
(* self_review_code *)

\* JSON values, one record shape for all of them
JAbsent == [t |-> "absent", n |-> 0, s |-> "", b |-> FALSE, l |-> <<>>]

JInt(n) == [t |-> "int", n |-> n, s |-> "", b |-> FALSE, l |-> <<>>]

JStr(s) == [t |-> "str", n |-> 0, s |-> s, b |-> FALSE, l |-> <<>>]

JBool(b) == [t |-> "bool", n |-> 0, s |-> "", b |-> b, l |-> <<>>]

\* a list of issues or suggestions, by their severities or types
JList(l) == [t |-> "list", n |-> 0, s |-> "", b |-> FALSE, l |-> l]

\* a dict with the six keys of a review; JAbsent marks a key that is not there
Dict(score, issues, suggestions, confidence, regen, summary) ==
    [score |-> score, issues |-> issues, suggestions |-> suggestions,
     confidence |-> confidence, should_regenerate |-> regen,
     summary |-> summary]

NoReview == Dict(JAbsent, JAbsent, JAbsent, JAbsent, JAbsent, JAbsent)

\* llm.py lines 157-164: the fallback when the review text is not JSON
DegradedReview ==
    Dict(JInt(5), JList(<<"medium">>), JList(<<>>), JStr("low"), JBool(FALSE),
         JStr("Review parsing failed"))

\* llm.py lines 168-175: the fallback when anything else raised
FailedReview ==
    Dict(JInt(1), JList(<<"critical">>), JList(<<>>), JStr("low"), JBool(TRUE),
         JStr("Review process failed"))

\* the objects the review completion may hold
ReplyObjects ==
    { Dict(sc, iss, JList(<<>>), conf, rg, JStr("summary")) :
        sc \in {JAbsent, JInt(0), JInt(1), JInt(7), JInt(10), JInt(11), JStr("8")},
        iss \in {JAbsent, JList(<<>>), JList(<<"high">>)},
        conf \in {JAbsent, JStr("high"), JStr("low"), JStr("certain")},
        rg \in {JAbsent, JBool(TRUE), JBool(FALSE), JStr("no")} }

\* what the completion call of the review did: it raised, or it returned a
\* text that is not JSON ("invalid"), or JSON of some type
Reply(raises, syntax, obj) == [raises |-> raises, syntax |-> syntax, obj |-> obj]

NoReply == Reply(FALSE, "none", NoReview)

Replies ==
    {Reply(TRUE, "none", NoReview)}
    \cup {Reply(FALSE, sy, NoReview) : sy \in {"invalid", "array", "number", "string", "null"}}
    \cup {Reply(FALSE, "object", o) : o \in ReplyObjects}

\* llm.py lines 138-175. json.loads raises JSONDecodeError on a text that is
\* not JSON (caught at 154); on JSON that is not an object, review_data.get of
\* line 152 raises AttributeError, which only the outer handler (166) catches;
\* an object is returned as it is (153)
self_review_code(r) ==
    IF r.raises THEN FailedReview
    ELSE IF r.syntax = "invalid" THEN DegradedReview
    ELSE IF r.syntax # "object" THEN FailedReview
    ELSE r.obj

----------------------------------------------------------------------------
(* The two executors *)

\* dict.get(key, "") of plan_file_application.py line 50
Get(m, p) == IF p \in DOMAIN m THEN m[p] ELSE <<>>

\* variant of StepAt: the list is walked from its end
StepAtReversed(k, n) == n + 1 - k

\* the for loops take the steps in list order: iteration k of n handles
\* steps[k]
StepAt(k, n) == k

\* variant of TryCovers: the model call is made before the try block
TryCoversNoLlm(ex, phase) ==
    IF ex = "apply_llm_plan_to_code" THEN phase \in {"write"}
    ELSE phase \in {"read", "write", "delete"}

\* which calls of an iteration lie inside the executor's try block:
\* apply_llm_plan_to_code wraps the model call and the write (lines 70-80),
\* apply_plan_steps wraps the whole iteration body (lines 46-99)
TryCovers(ex, phase) ==
    IF ex = "apply_llm_plan_to_code" THEN phase \in {"llm", "write"}
    ELSE phase \in {"read", "llm", "write", "delete"}

\* the content a modify prompt is built from: the map read before the plan
\* (plan_file_application.py line 50), or the file as the sandbox holds it
\* now (plan_application.py line 68)
OriginalCodeOf(ex, cc, sb, p) ==
    IF ex = "apply_llm_plan_to_code" THEN Get(cc, p) ELSE sb[p]

\* variant of RecordModified: the path is recorded before the write is tried
RecordModifiedAlways(mf, p, text, ok) == Put(mf, p, text)

\* plan_file_application.py line 78 runs only after the write returned
RecordModified(mf, p, text, ok) == IF ok THEN Put(mf, p, text) ELSE mf

\* plan_file_application.py lines 61-64: a delete step records nothing
RecordDeleted(mf, p) == mf

CurStep == StepAt(i, Len(steps))

\* the iteration is over: the loop moves on and the locals are dead
EndIteration ==
    /\ i' = i + 1
    /\ pc' = "loop"
    /\ original_code' = <<>>
    /\ new_code' = <<>>

\* an exception raised by `phase` of step s, after the entries `pre`: the
\* except clause logs it and the loop goes on, or it leaves the executor
Fail(pre, s, p, phase) ==
    IF TryCovers(executor, phase)
    THEN /\ trace' = trace \o pre
                     \o <<Ev(s, phase, p, FALSE, <<>>), Log(s, "log_failed", p)>>
         /\ EndIteration
    ELSE /\ trace' = trace \o pre \o <<Ev(s, phase, p, FALSE, <<>>)>>
         /\ i' = i
         /\ pc' = "raised"
         /\ original_code' = <<>>
         /\ new_code' = <<>>

Init ==
    /\ executor \in Executors
    /\ steps \in Plans
    /\ sandbox = [p \in InitialFiles |-> Original]
    /\ current_code = [p \in InitialFiles |-> Original]
    /\ i = 1
    /\ pc = IF executor = "apply_plan_steps" THEN "start" ELSE "loop"
    /\ original_code = <<>>
    /\ new_code = <<>>
    /\ modified_files = EmptyMap
    /\ trace = <<>>
    /\ reply = NoReply
    /\ review = NoReview
    /\ rpc = "idle"
    /\ parser = "none"
    /\ context = ""
    /\ plan_text = <<>>
    /\ parsed = <<>>
    /\ ppc = "idle"
    /\ compiler = "none"
    /\ tokenizer = "none"
    /\ code_map = <<>>
    /\ stack_len = 0
    /\ ci = 1
    /\ file_blocks = <<>>
    /\ skipped_files = <<>>
    /\ total_chars = 0
    /\ digest = <<>>
    /\ handed = <<>>
    /\ dependency_graph = EmptyMap
    /\ cpc = "idle"
    /\ fpc = "idle"
    /\ live = "none"
    /\ enable_modifications = FALSE
    /\ github_token = FALSE
    /\ stream = <<>>
    /\ extracted_files = EmptyMap
    /\ remote = NoRemote

\* apply_llm_plan_to_code, lines 45-67: read the step, format the prompt, or
\* delete the file, or skip an unknown action
LP_Prepare ==
    /\ executor = "apply_llm_plan_to_code"
    /\ pc = "loop"
    /\ i <= Len(steps)
    /\ LET s == CurStep
           action == steps[s].action
           p == steps[s].file
       IN
       IF action \in {"create", "modify"}
       THEN /\ \/ /\ trace' = trace \o <<Ev(s, "load", p, TRUE, <<>>)>>
                  /\ original_code' =
                        OriginalCodeOf(executor, current_code, sandbox, p)
                  /\ pc' = "generate"
                  /\ UNCHANGED <<i, new_code>>
               \/ Fail(<<>>, s, p, "load")
            /\ UNCHANGED <<sandbox, modified_files>>
       ELSE IF action = "delete"
       THEN \/ /\ trace' = trace \o <<Log(s, "log_deleting", p),
                                      Ev(s, "delete", p, TRUE, <<>>)>>
               /\ sandbox' = Remove(sandbox, p)
               /\ modified_files' = RecordDeleted(modified_files, p)
               /\ EndIteration
            \/ /\ Fail(<<Log(s, "log_deleting", p)>>, s, p, "delete")
               /\ UNCHANGED <<sandbox, modified_files>>
       ELSE /\ trace' = trace \o <<Log(s, "log_unknown", p)>>
            /\ EndIteration
            /\ UNCHANGED <<sandbox, modified_files>>
    /\ UNCHANGED <<executor, steps, current_code, reply, review, rpc>>
    /\ UNCHANGED <<parseVars, compileVars, flowVars>>

\* apply_llm_plan_to_code, lines 70-76: one call of the model, then the
\* markdown stripping and the "Applying changes" line
LP_Generate ==
    /\ executor = "apply_llm_plan_to_code"
    /\ pc = "generate"
    /\ LET s == CurStep
           p == steps[s].file
           shown == IF steps[s].action = "modify" THEN original_code ELSE <<>>
       IN
       \/ \E out \in LLMOutputs :
            /\ new_code' = StripMarkdown(out)
            /\ trace' = trace \o <<Ev(s, "llm", p, TRUE, shown),
                                   Log(s, "log_applying", p)>>
            /\ pc' = "write"
            /\ UNCHANGED <<i, original_code>>
       \/ Fail(<<>>, s, p, "llm")
    /\ UNCHANGED <<executor, steps, sandbox, current_code, modified_files,
                   reply, review, rpc>>
    /\ UNCHANGED <<parseVars, compileVars, flowVars>>

\* apply_llm_plan_to_code, lines 77-80: write the file, record it
LP_Write ==
    /\ executor = "apply_llm_plan_to_code"
    /\ pc = "write"
    /\ LET s == CurStep
           p == steps[s].file
       IN
       \/ /\ sandbox' = Put(sandbox, p, new_code)
          /\ modified_files' = RecordModified(modified_files, p, new_code, TRUE)
          /\ trace' = trace \o <<Ev(s, "write", p, TRUE, new_code)>>
          /\ EndIteration
       \/ /\ Fail(<<>>, s, p, "write")
          /\ modified_files' = RecordModified(modified_files, p, new_code, FALSE)
          /\ UNCHANGED sandbox
    /\ UNCHANGED <<executor, steps, current_code, reply, review, rpc>>
    /\ UNCHANGED <<parseVars, compileVars, flowVars>>

\* apply_llm_plan_to_code, line 82
LP_Return ==
    /\ executor = "apply_llm_plan_to_code"
    /\ pc = "loop"
    /\ i > Len(steps)
    /\ pc' = "done"
    /\ UNCHANGED <<executor, steps, sandbox, current_code, i, original_code,
                   new_code, modified_files, trace, reply, review, rpc>>
    /\ UNCHANGED <<parseVars, compileVars, flowVars>>

\* apply_plan_steps, line 36: the opening progress line
PS_Start ==
    /\ executor = "apply_plan_steps"
    /\ pc = "start"
    /\ trace' = trace \o <<Log(0, "log_header", "")>>
    /\ pc' = "loop"
    /\ UNCHANGED <<executor, steps, sandbox, current_code, i, original_code,
                   new_code, modified_files, reply, review, rpc>>
    /\ UNCHANGED <<parseVars, compileVars, flowVars>>

\* apply_plan_steps, lines 38-50, 67-68 and 91-96: the step line, then the
\* read of a modify step, or the delete, or the skip of an unknown action
PS_Prepare ==
    /\ executor = "apply_plan_steps"
    /\ pc = "loop"
    /\ i <= Len(steps)
    /\ LET s == CurStep
           action == steps[s].action
           p == steps[s].file
           head == <<Log(s, "log_step", p)>>
       IN
       IF action = "create"
       THEN /\ trace' = trace \o head
            /\ pc' = "generate"
            /\ UNCHANGED <<i, original_code, new_code, sandbox>>
       ELSE IF action = "modify"
       THEN \/ /\ p \in DOMAIN sandbox
               /\ original_code' =
                     OriginalCodeOf(executor, current_code, sandbox, p)
               /\ trace' = trace \o head \o <<Ev(s, "read", p, TRUE, sandbox[p])>>
               /\ pc' = "generate"
               /\ UNCHANGED <<i, new_code, sandbox>>
            \/ /\ Fail(head, s, p, "read")
               /\ UNCHANGED sandbox
       ELSE IF action = "delete"
       THEN \/ /\ sandbox' = Remove(sandbox, p)
               /\ trace' = trace \o head \o <<Ev(s, "delete", p, TRUE, <<>>),
                                            Log(s, "log_deleted", p)>>
               /\ EndIteration
            \/ /\ Fail(head, s, p, "delete")
               /\ UNCHANGED sandbox
       ELSE /\ trace' = trace \o head \o <<Log(s, "log_unknown", p)>>
            /\ EndIteration
            /\ UNCHANGED sandbox
    /\ UNCHANGED <<executor, steps, current_code, modified_files,
                   reply, review, rpc>>
    /\ UNCHANGED <<parseVars, compileVars, flowVars>>

\* apply_plan_steps, lines 51-62 and 70-86: one call of the model, then the
\* removal of a wrapping fence
PS_Generate ==
    /\ executor = "apply_plan_steps"
    /\ pc = "generate"
    /\ LET s == CurStep
           p == steps[s].file
       IN
       \/ \E out \in LLMOutputs :
            /\ new_code' = StripWrapping(out)
            /\ trace' = trace \o <<Ev(s, "llm", p, TRUE, original_code)>>
            /\ pc' = "write"
            /\ UNCHANGED <<i, original_code>>
       \/ Fail(<<>>, s, p, "llm")
    /\ UNCHANGED <<executor, steps, sandbox, current_code, modified_files,
                   reply, review, rpc>>
    /\ UNCHANGED <<parseVars, compileVars, flowVars>>

\* apply_plan_steps, lines 64-65 and 88-89: write the file, report it
PS_Write ==
    /\ executor = "apply_plan_steps"
    /\ pc = "write"
    /\ LET s == CurStep
           p == steps[s].file
           done == IF steps[s].action = "create" THEN "log_created"
                   ELSE "log_modified"
       IN
       \/ /\ sandbox' = Put(sandbox, p, new_code)
          /\ trace' = trace \o <<Ev(s, "write", p, TRUE, new_code),
                                 Log(s, done, p)>>
          /\ EndIteration
       \/ /\ Fail(<<>>, s, p, "write")
          /\ UNCHANGED sandbox
    /\ UNCHANGED <<executor, steps, current_code, modified_files,
                   reply, review, rpc>>
    /\ UNCHANGED <<parseVars, compileVars, flowVars>>

\* apply_plan_steps, line 101: the closing progress line
PS_Finish ==
    /\ executor = "apply_plan_steps"
    /\ pc = "loop"
    /\ i > Len(steps)
    /\ trace' = trace \o <<Log(Len(steps) + 1, "log_completed", "")>>
    /\ pc' = "done"
    /\ UNCHANGED <<executor, steps, sandbox, current_code, i, original_code,
                   new_code, modified_files, reply, review, rpc>>
    /\ UNCHANGED <<parseVars, compileVars, flowVars>>

Next ==
    \/ LP_Prepare
    \/ LP_Generate
    \/ LP_Write
    \/ LP_Return
    \/ PS_Start
    \/ PS_Prepare
    \/ PS_Generate
    \/ PS_Write
    \/ PS_Finish

Spec == Init /\ [][Next]_vars

\* self_review_code as an operation of its own
InitReview ==
    /\ executor = "apply_llm_plan_to_code"
    /\ steps = <<>>
    /\ sandbox = EmptyMap
    /\ current_code = EmptyMap
    /\ i = 1
    /\ pc = "idle"
    /\ original_code = <<>>
    /\ new_code = <<>>
    /\ modified_files = EmptyMap
    /\ trace = <<>>
    /\ reply \in Replies
    /\ review = NoReview
    /\ rpc = "call"
    /\ parser = "none"
    /\ context = ""
    /\ plan_text = <<>>
    /\ parsed = <<>>
    /\ ppc = "idle"
    /\ compiler = "none"
    /\ tokenizer = "none"
    /\ code_map = <<>>
    /\ stack_len = 0
    /\ ci = 1
    /\ file_blocks = <<>>
    /\ skipped_files = <<>>
    /\ total_chars = 0
    /\ digest = <<>>
    /\ handed = <<>>
    /\ dependency_graph = EmptyMap
    /\ cpc = "idle"
    /\ fpc = "idle"
    /\ live = "none"
    /\ enable_modifications = FALSE
    /\ github_token = FALSE
    /\ stream = <<>>
    /\ extracted_files = EmptyMap
    /\ remote = NoRemote

ReviewCall ==
    /\ rpc = "call"
    /\ review' = self_review_code(reply)
    /\ rpc' = "returned"
    /\ UNCHANGED <<executor, steps, sandbox, current_code, i, pc, original_code,
                   new_code, modified_files, trace, reply>>
    /\ UNCHANGED <<parseVars, compileVars, flowVars>>

NextReview == ReviewCall

SpecReview == InitReview /\ [][NextReview]_vars

----------------------------------------------------------------------------
(* Properties of the executors (checked under Spec) *)

IsEffect(e) == e.ok /\ e.op \in {"write", "delete"}

\* positions before k of the successful writes and deletes of path p
EffectsBefore(k, p) ==
    {m \in 1..(k - 1) : IsEffect(trace[m]) /\ trace[m].path = p}

Latest(S) == CHOOSE m \in S : \A m2 \in S : m2 <= m

\* whether the sandbox holds a file at path p just before entry k
ExistsBefore(k, p) ==
    IF EffectsBefore(k, p) = {} THEN p \in InitialFiles
    ELSE trace[Latest(EffectsBefore(k, p))].op = "write"

LlmCalls(s) == {k \in DOMAIN trace : trace[k].op = "llm" /\ trace[k].step = s}

Reviews(s) == {k \in DOMAIN trace : trace[k].op = "review" /\ trace[k].step = s}

OutcomeKinds == {"log_deleting", "log_unknown", "log_applying", "log_failed",
                 "log_created", "log_modified", "log_deleted"}

OnlyGenerationFaults == \A k \in DOMAIN trace : ~trace[k].ok => trace[k].op = "llm"

\* C1: for every create/modify step the generator is called at most three
\* times, and the content handed to the write after a successful generation
\* is never empty.
C1_BoundedAttemptsNonEmptyContent ==
    /\ \A s \in 1..Len(steps) : Cardinality(LlmCalls(s)) <= 3
    /\ pc = "write" => new_code # <<>>

\* C2: the content written for a step is one that was reviewed, and its review
\* score is the maximum of the scores of all reviews of that step.
C2_ReturnedContentHasMaxReviewScore ==
    \A w \in DOMAIN trace :
        trace[w].op = "write" /\ trace[w].ok =>
            \E r \in Reviews(trace[w].step) :
                /\ r < w
                /\ trace[r].text = trace[w].text
                /\ \A r2 \in Reviews(trace[w].step) :
                       trace[r2].score <= trace[r].score

\* C3: every successful generation is directly followed by a review of that
\* step, before anything else is logged or written.
C3_GenerateThenReview ==
    \A k \in DOMAIN trace :
        trace[k].op = "llm" /\ trace[k].ok /\ k < Len(trace) =>
            /\ trace[k + 1].op = "review"
            /\ trace[k + 1].step = trace[k].step

\* C4: when the only collaborator failures of a run are failed generation
\* calls, no exception leaves the executor, each failed generation is followed
\* by the failure entry of its step, and once the executor has returned every
\* step of the plan has an outcome entry in the log.
C4_GenerationFaultIsolation ==
    OnlyGenerationFaults =>
        /\ pc # "raised"
        /\ \A k \in DOMAIN trace :
               ~trace[k].ok =>
                   /\ k < Len(trace)
                   /\ trace[k + 1] = Log(trace[k].step, "log_failed", trace[k].path)
        /\ pc = "done" =>
               \A s \in 1..Len(steps) :
                   \E k \in DOMAIN trace :
                       /\ trace[k].step = s
                       /\ trace[k].op \in OutcomeKinds
                       /\ trace[k].path = steps[s].file

\* a three-step plan whose middle generation failed and whose first and third
\* steps were written, after the executor returned
C4_Witness ==
    /\ pc = "done"
    /\ Len(steps) = 3
    /\ OnlyGenerationFaults
    /\ \E k \in DOMAIN trace :
           trace[k].step = 2 /\ trace[k].op = "llm" /\ ~trace[k].ok
    /\ \A s \in {1, 3} :
           \E k \in DOMAIN trace :
               trace[k].step = s /\ trace[k].op = "write" /\ trace[k].ok

\* C5: whatever per-step call throws (template load, read, model call, write,
\* delete), no exception leaves the executor and the step gets exactly one
\* failure entry.
C5_EveryStepFaultIsolated ==
    /\ pc # "raised"
    /\ \A k \in DOMAIN trace :
           ~trace[k].ok =>
               Cardinality({m \in DOMAIN trace :
                               /\ trace[m].step = trace[k].step
                               /\ trace[m].op = "log_failed"}) = 1

\* C6: the current content shown to the model for a modify step is the text
\* that the latest earlier successful write of the plan put at that path.
C6_ModifyObservesPriorWrite ==
    \A k \in DOMAIN trace :
        /\ trace[k].op = "llm"
        /\ trace[k].ok
        /\ steps[trace[k].step].action = "modify"
        /\ EffectsBefore(k, trace[k].path) # {}
        /\ ExistsBefore(k, trace[k].path)
        => trace[k].text = trace[Latest(EffectsBefore(k, trace[k].path))].text

\* C7: the entries of the trace (collaborator calls and log lines) are in
\* plan-step order, and none belongs to a step the loop has not reached.
C7_TraceInStepOrder ==
    /\ \A k \in 1..(Len(trace) - 1) : trace[k].step <= trace[k + 1].step
    /\ \A k \in DOMAIN trace :
           IsEffect(trace[k]) =>
               /\ trace[k].step \in 1..Len(steps)
               /\ trace[k].path = steps[trace[k].step].file
               /\ trace[k].step <= i

\* the executor returned after a successful effect of step 1 and a later
\* successful effect of another step
C7_Witness ==
    /\ pc = "done"
    /\ \E k, m \in DOMAIN trace :
           /\ IsEffect(trace[k]) /\ trace[k].step = 1
           /\ IsEffect(trace[m]) /\ trace[m].step > 1
           /\ trace[k].op # trace[m].op

\* C8: every path of the returned map was successfully written or deleted by
\* some step of the plan.
C8_ModifiedOnlyWrittenOrDeleted ==
    \A p \in DOMAIN modified_files :
        \E k \in DOMAIN trace : IsEffect(trace[k]) /\ trace[k].path = p

\* apply_llm_plan_to_code returned a non-empty map after a failed write or a
\* failed generation on a path that is not in the map
C8_Witness ==
    /\ pc = "done"
    /\ modified_files # EmptyMap
    /\ \E k \in DOMAIN trace :
           /\ ~trace[k].ok
           /\ trace[k].op = "write"
           /\ trace[k].path \notin DOMAIN modified_files
    /\ \E s \in 1..Len(steps) :
           /\ steps[s].action = "rename"
           /\ steps[s].file \notin DOMAIN modified_files

\* C9: every path that a step successfully wrote, and every path of a file
\* that a delete step removed, is in the map apply_llm_plan_to_code returns.
C9_ModifiedIsChangedSet ==
    executor = "apply_llm_plan_to_code" /\ pc = "done" =>
        \A k \in DOMAIN trace :
            IsEffect(trace[k]) /\ (trace[k].op = "delete" => ExistsBefore(k, trace[k].path))
            => trace[k].path \in DOMAIN modified_files

\* C11: a failed generation call is the only model call of its step: no
\* other generation, no review and no write follows for that step, its
\* failure entry is the next entry of the trace, and the loop has moved on to
\* the following step.
C11_GenerationFailureNotRetried ==
    \A k \in DOMAIN trace :
        trace[k].op = "llm" /\ ~trace[k].ok =>
            /\ Cardinality(LlmCalls(trace[k].step)) = 1
            /\ Reviews(trace[k].step) = {}
            /\ k < Len(trace)
            /\ trace[k + 1] = Log(trace[k].step, "log_failed", trace[k].path)
            /\ \A m \in (k + 2)..Len(trace) : trace[m].step > trace[k].step
            /\ i > trace[k].step

\* a generation failed and a later step of the plan was generated and written
C11_Witness ==
    \E k, m \in DOMAIN trace :
        /\ trace[k].op = "llm" /\ ~trace[k].ok
        /\ trace[m].op = "write" /\ trace[m].ok
        /\ trace[m].step > trace[k].step

----------------------------------------------------------------------------
(* Properties of self_review_code (checked under SpecReview) *)

\* the ReviewResult shape: integer score 1..10, lists of issues and of
\* suggestions, a confidence level, a boolean regenerate flag
HasReviewShape(o) ==
    /\ o.score.t = "int" /\ o.score.n \in 1..10
    /\ o.issues.t = "list"
    /\ o.suggestions.t = "list"
    /\ o.confidence.t = "str" /\ o.confidence.s \in {"high", "medium", "low"}
    /\ o.should_regenerate.t = "bool"

ParsesAsReview(r) == r.syntax = "object" /\ HasReviewShape(r.obj)

\* C10: when the completion returned a text that does not parse as a
\* ReviewResult, the returned review is the degraded one (score 5, one medium
\* issue, no suggestion, confidence low, no regeneration).
C10_UnparsableGivesDegraded ==
    rpc = "returned" /\ ~reply.raises /\ ~ParsesAsReview(reply)
        => review = DegradedReview

\* C12: whatever the completion call did, the returned review has an integer
\* score in 1..10, a confidence among high, medium and low, and a boolean
\* regenerate flag.
C12_ReturnedReviewHasShape ==
    rpc = "returned" =>
        /\ review.score.t = "int" /\ review.score.n \in 1..10
        /\ review.confidence.t = "str"
        /\ review.confidence.s \in {"high", "medium", "low"}
        /\ review.should_regenerate.t = "bool"

----------------------------------------------------------------------------
(* Plan parsing: the two functions named parse_plan_generalized.           *)
(*                                                                         *)
(* A plan text is the sequence of its <step> records in order of           *)
(* appearance; each record holds the text captured by its action, file and *)
(* description tag, or no capture when the tag is missing. An action text  *)
(* is a sequence of tokens (" " is whitespace, the others are words); a    *)
(* file name is the sequence of the character classes of its base name     *)
(* ("U" upper-case letter, "l" lower-case letter, "-", "_", "9" other).    *)

MaxRecords == 2

Parsers == {"plan_file_application", "plan_parsing"}

\* the parser run_agent_flow imports and calls
PipelineParser == "plan_file_application"

ValidActions == { <<"create">>, <<"modify">>, <<"delete">> }

NoAction == [present |-> FALSE, text |-> <<>>]

ActionText(t) == [present |-> TRUE, text |-> t]

RawActions ==
    { NoAction, ActionText(<<"create">>), ActionText(<<" ", "MODIFY", " ">>),
      ActionText(<<"rename">>) }

File(path, pad, base, ext, within) ==
    [present |-> TRUE, path |-> path, pad |-> pad, base |-> base, ext |-> ext,
     within |-> within]

NoFile ==
    [present |-> FALSE, path |-> "", pad |-> FALSE, base |-> <<>>, ext |-> "",
     within |-> {}]

\* a path ending with a slash (its base name is empty), a snake_case module
\* and a PascalCase component written with blanks around the path
RawFiles ==
    { NoFile,
      File("src/new/", FALSE, <<>>, "", {}),
      File("src/my_file.ts", FALSE, <<"l", "_", "l">>, ".ts", {}),
      File("src/Widget.tsx", TRUE, <<"U", "l">>, ".tsx", {}) }

Description(text, mentions) ==
    [present |-> TRUE, text |-> text, mentions |-> mentions]

NoDescription == [present |-> FALSE, text |-> "", mentions |-> {}]

RawDescriptions ==
    { NoDescription,
      Description("add react hooks, npm install", {"add", "react", "npm", "install"}) }

RawRecords ==
    [action : RawActions, file : RawFiles, description : RawDescriptions]

PlanTexts == UNION { [1..n -> RawRecords] : n \in 0..MaxRecords }

\* str.strip on a token sequence
RECURSIVE LStripBlank(_)
LStripBlank(t) == IF t # <<>> /\ Head(t) = " " THEN LStripBlank(Tail(t)) ELSE t

RECURSIVE RStripBlank(_)
RStripBlank(t) ==
    IF t # <<>> /\ t[Len(t)] = " " THEN RStripBlank(SubSeq(t, 1, Len(t) - 1)) ELSE t

StripBlank(t) == RStripBlank(LStripBlank(t))

\* str.lower on one token
LowerToken(w) ==
    CASE w = "MODIFY" -> "modify"
      [] w = "Create" -> "create"
      [] OTHER -> w

Lower(t) == [k \in DOMAIN t |-> LowerToken(t[k])]

\* group(1).strip() of the file capture
StripFile(f) == [f EXCEPT !.pad = FALSE]

(* ProjectPatternAnalyzer: a context is its text, the file paths it lists  *)
(* and the technology and package manager keywords that occur in it.       *)
Listed(path, parts, base, ext) ==
    [path |-> path, parts |-> parts, base |-> base, ext |-> ext]

Context(text, listed, techs, managers) ==
    [text |-> text, listed |-> listed, techs |-> techs, managers |-> managers]

CtxEmpty == Context("", <<>>, {}, {})

Contexts ==
    { CtxEmpty,
      Context("notes", <<>>, {}, {}),
      Context("Path: src/app.ts Path: src/main.ts",
              << Listed("src/app.ts", {"src", "app.ts"}, <<"l">>, ".ts"),
                 Listed("src/main.ts", {"src", "main.ts"}, <<"l">>, ".ts") >>,
              {}, {}),
      Context("Path: src/components/Button.tsx package.json",
              << Listed("src/components/Button.tsx",
                        {"src", "components", "button.tsx"}, <<"U", "l">>, ".tsx") >>,
              {"react"}, {"npm"}) }

HasChar(b, c) == \E k \in DOMAIN b : b[k] = c

PatternOf(b) ==
    IF b[1] = "U" /\ ~HasChar(b, "_") /\ ~HasChar(b, "-") THEN "pascal_case"
    ELSE IF b[1] = "l" /\ ~HasChar(b, "_") /\ ~HasChar(b, "-") THEN "camel_case"
    ELSE IF HasChar(b, "-") THEN "kebab_case"
    ELSE IF HasChar(b, "_") THEN "snake_case"
    ELSE "lowercase"

NamingPatterns ==
    <<"pascal_case", "camel_case", "kebab_case", "snake_case", "lowercase">>

\* max(patterns, key=patterns.get): the first pattern with the highest count
AnalyzeNamingPattern(names) ==
    IF names = <<>> THEN "unknown"
    ELSE LET Count(j) ==
                 Cardinality({k \in DOMAIN names :
                                  PatternOf(names[k].base) = NamingPatterns[j]})
             best == CHOOSE j \in DOMAIN NamingPatterns :
                         /\ \A j2 \in 1..(j - 1) : Count(j2) < Count(j)
                         /\ \A j2 \in (j + 1)..Len(NamingPatterns) : Count(j2) <= Count(j)
         IN  NamingPatterns[best]

IsComponentExt(f) == f.ext \in {".tsx", ".jsx", ".vue"}

ComponentDirs(ctx) ==
    {ctx.listed[k].path : k \in
        {k \in DOMAIN ctx.listed :
            ctx.listed[k].parts \cap {"components", "component", "ui", "widgets"} # {}}}

\* GeneralizedPlanParser.__init__: no analyzer for an empty context
Analyzer(ctx) ==
    [present |-> ctx.text # "",
     component_dirs |-> ComponentDirs(ctx),
     components |-> AnalyzeNamingPattern(SelectSeq(ctx.listed, IsComponentExt)),
     files |-> AnalyzeNamingPattern(ctx.listed),
     techs |-> ctx.techs,
     managers |-> ctx.managers]

InComponentDir(an, f) == an.component_dirs \cap f.within # {}

is_component_file(an, f) ==
    IF ~an.present THEN FALSE
    ELSE IF InComponentDir(an, f) THEN TRUE
    ELSE IF IsComponentExt(f) /\ f.base # <<>>
         THEN IF an.components = "pascal_case"
              THEN f.base[1] = "U" /\ ~HasChar(f.base, "_") /\ ~HasChar(f.base, "-")
              ELSE IF an.components = "kebab_case"
                   THEN HasChar(f.base, "-") /\ f.base[1] = "l"
                   ELSE FALSE
         ELSE FALSE

ConventionFor(an, f) == IF is_component_file(an, f) THEN an.components ELSE an.files

IndexedConventions == {"pascal_case", "camel_case", "kebab_case", "snake_case"}

\* validate_naming evaluates clean_name[0]: an IndexError on an empty name
NamingRaises(an, f) ==
    an.present /\ ConventionFor(an, f) \in IndexedConventions /\ f.base = <<>>

\* is_valid of validate_naming, for a name on which it does not raise
NamingValid(an, f) ==
    LET c == ConventionFor(an, f)
        b == f.base
    IN  IF ~an.present \/ c = "unknown" THEN TRUE
        ELSE IF c = "pascal_case"
             THEN b[1] = "U" /\ ~HasChar(b, "_") /\ ~HasChar(b, "-")
        ELSE IF c = "camel_case"
             THEN b[1] = "l" /\ ~HasChar(b, "_") /\ ~HasChar(b, "-")
        ELSE IF c = "kebab_case" THEN HasChar(b, "-") /\ b[1] = "l"
        ELSE IF c = "snake_case" THEN HasChar(b, "_") /\ b[1] = "l"
        ELSE FALSE

\* the suggestion is empty when no branch of validate_naming matched
HasSuggestion(an, f) == ConventionFor(an, f) \in IndexedConventions

detect_technologies(an, d) ==
    IF ~an.present THEN {} ELSE {t \in an.techs : t \in d.mentions}

detect_dependencies(an, d) ==
    IF ~an.present THEN {}
    ELSE {m \in {"npm_install"} : "npm" \in an.managers /\ "npm" \in d.mentions}
         \cup {m \in {"dependency_install"} :
                   d.mentions \cap {"install", "add", "require"} # {}}

generate_warnings(an, f, d) ==
    IF ~an.present THEN <<>>
    ELSE (IF ~NamingValid(an, f) /\ HasSuggestion(an, f)
          THEN <<"naming">> ELSE <<>>)
         \o (IF is_component_file(an, f) /\ ~InComponentDir(an, f)
             THEN <<"placement">> ELSE <<>>)
         \o (IF \E t \in detect_technologies(an, d) : t \notin an.techs
             THEN <<"technology">> ELSE <<>>)

PlanStep(action, f, d, derived, comp, techs, deps, warnings) ==
    [action |-> action, file |-> f, description |-> d, derived |-> derived,
     is_component |-> comp, technologies |-> techs, dependencies |-> deps,
     warnings |-> warnings]

HasAllFields(r) == r.action.present /\ r.file.present /\ r.description.present

ActionOf(r) == Lower(StripBlank(r.action.text))

CollectFront(acc, step) == <<step>> \o acc

\* steps.append(...)
Collect(acc, step) == Append(acc, step)

Returned(acc) == [raised |-> FALSE, steps |-> acc]

Raised == [raised |-> TRUE, steps |-> <<>>]

\* plan_file_application.parse_plan_generalized
RECURSIVE ParseSimple(_, _)
ParseSimple(records, acc) ==
    IF records = <<>> THEN Returned(acc)
    ELSE LET r == Head(records)
         IN  IF HasAllFields(r)
             THEN ParseSimple(Tail(records),
                      Collect(acc, PlanStep(ActionOf(r), StripFile(r.file),
                                            r.description, FALSE, FALSE, {}, {}, <<>>)))
             ELSE ParseSimple(Tail(records), acc)

\* plan_parsing.parse_plan_generalized
RECURSIVE ParseGeneralized(_, _, _)
ParseGeneralized(records, an, acc) ==
    IF records = <<>> THEN Returned(acc)
    ELSE LET r == Head(records)
             f == StripFile(r.file)
             d == r.description
         IN  IF ~HasAllFields(r) THEN ParseGeneralized(Tail(records), an, acc)
             ELSE IF ActionOf(r) \notin ValidActions
                  THEN ParseGeneralized(Tail(records), an, acc)
             ELSE IF NamingRaises(an, f) THEN Raised
             ELSE ParseGeneralized(Tail(records), an,
                      Collect(acc, PlanStep(ActionOf(r), f, d, TRUE,
                                            is_component_file(an, f),
                                            detect_technologies(an, d),
                                            detect_dependencies(an, d),
                                            generate_warnings(an, f, d))))

parse_plan_generalized(which, text, ctx) ==
    IF which = PipelineParser THEN ParseSimple(text, <<>>)
    ELSE ParseGeneralized(text, Analyzer(ctx), <<>>)

\* what the executors read of a step: step["action"], step["file"] and
\* step["description"]
ExecutorView(st) ==
    [action |-> st.action, file |-> st.file.path, description |-> st.description.text]

ViewOf(sts) == [k \in DOMAIN sts |-> ExecutorView(sts[k])]

InitParse ==
    /\ executor = "apply_llm_plan_to_code"
    /\ steps = <<>>
    /\ sandbox = EmptyMap
    /\ current_code = EmptyMap
    /\ i = 1
    /\ pc = "idle"
    /\ original_code = <<>>
    /\ new_code = <<>>
    /\ modified_files = EmptyMap
    /\ trace = <<>>
    /\ reply = NoReply
    /\ review = NoReview
    /\ rpc = "idle"
    /\ parser \in Parsers
    /\ context \in (IF parser = PipelineParser THEN {CtxEmpty} ELSE Contexts)
    /\ plan_text \in PlanTexts
    /\ parsed = <<>>
    /\ ppc = "call"
    /\ compiler = "none"
    /\ tokenizer = "none"
    /\ code_map = <<>>
    /\ stack_len = 0
    /\ ci = 1
    /\ file_blocks = <<>>
    /\ skipped_files = <<>>
    /\ total_chars = 0
    /\ digest = <<>>
    /\ handed = <<>>
    /\ dependency_graph = EmptyMap
    /\ cpc = "idle"
    /\ fpc = "idle"
    /\ live = "none"
    /\ enable_modifications = FALSE
    /\ github_token = FALSE
    /\ stream = <<>>
    /\ extracted_files = EmptyMap
    /\ remote = NoRemote

ParseCall ==
    /\ ppc = "call"
    /\ LET res == parse_plan_generalized(parser, plan_text, context)
       IN  /\ parsed' = res.steps
           /\ ppc' = IF res.raised THEN "raised" ELSE "returned"
    /\ UNCHANGED <<parser, context, plan_text>>
    /\ UNCHANGED <<execVars, reviewVars, compileVars, flowVars>>

\* run_agent_flow passes the list the parser returned to the executor
HandOver ==
    /\ ppc = "returned"
    /\ parser = PipelineParser
    /\ steps' = ViewOf(parsed)
    /\ ppc' = "handed"
    /\ UNCHANGED <<parser, context, plan_text, parsed>>
    /\ UNCHANGED <<executor, sandbox, current_code, i, pc, original_code,
                   new_code, modified_files, trace>>
    /\ UNCHANGED <<reviewVars, compileVars, flowVars>>

NextParse == ParseCall \/ HandOver

SpecParse == InitParse /\ [][NextParse]_vars

----------------------------------------------------------------------------
(* Properties of plan parsing (checked under SpecParse) *)

\* the value a record's tags carry for a step
ValueOf(r) == [action |-> ActionOf(r), file |-> StripFile(r.file),
               description |-> r.description]

Carries(st, r) ==
    /\ st.action = ValueOf(r).action
    /\ st.file = ValueOf(r).file
    /\ st.description = ValueOf(r).description

\* a record the parser has to accept: the three fields and a known action
WellFormed(r) == HasAllFields(r) /\ ActionOf(r) \in ValidActions

WellFormedAt == {j \in DOMAIN plan_text : WellFormed(plan_text[j])}

HasReturned == ppc \in {"returned", "handed"}

\* C14: the returned steps are records of the text taken in the order of
\* the text, each at most once and every well-formed one among them, and the
\* executor is handed the same sequence.
C14_ParsePreservesOrder ==
    HasReturned =>
        /\ \E f \in [DOMAIN parsed -> DOMAIN plan_text] :
              /\ \A k \in DOMAIN parsed : Carries(parsed[k], plan_text[f[k]])
              /\ \A k \in 1..(Len(parsed) - 1) : f[k] < f[k + 1]
              /\ WellFormedAt \subseteq {f[k] : k \in DOMAIN parsed}
        /\ ppc = "handed" => steps = ViewOf(parsed)

\* two different records were parsed and handed to the executor
C14_Witness ==
    /\ ppc = "handed"
    /\ Len(steps) = 2
    /\ steps[1] # steps[2]

\* C15: the parser the pipeline uses returns no step whose action is
\* outside create, modify and delete, and the executor is handed none.
C15_PipelineParserDropsUnknownActions ==
    parser = PipelineParser =>
        /\ HasReturned => \A k \in DOMAIN parsed : parsed[k].action \in ValidActions
        /\ ppc = "handed" => \A k \in DOMAIN steps : steps[k].action \in ValidActions

\* C16: parsing raises no error, a record with a missing field yields no
\* step, every well-formed record yields exactly one, and the number of
\* returned steps is the number of well-formed records.
C16_MissingFieldTolerance ==
    ppc # "call" =>
        /\ ppc # "raised"
        /\ Len(parsed) = Cardinality(WellFormedAt)
        /\ \E f \in [DOMAIN parsed -> WellFormedAt] :
              /\ \A k \in DOMAIN parsed : Carries(parsed[k], plan_text[f[k]])
              /\ \A k \in 1..(Len(parsed) - 1) : f[k] < f[k + 1]

\* C17: a text of one well-formed record parses, under any context, to
\* exactly one step carrying the record's action, file and description,
\* without raising.
C17_RoundTrip ==
    ppc # "call" /\ Len(plan_text) = 1 /\ WellFormed(plan_text[1]) =>
        /\ ppc # "raised"
        /\ Len(parsed) = 1
        /\ Carries(parsed[1], plan_text[1])

\* a name breaks the detected naming convention
ViolatesNaming(an, f) ==
    /\ an.present
    /\ ConventionFor(an, f) \in IndexedConventions
    /\ f.base = <<>> \/ ~NamingValid(an, f)

\* C18: a well-formed record whose file breaks the detected naming
\* convention is returned with its three values, and what the executor reads
\* of the returned steps is what it reads when no convention is detected.
C18_ViolationsNeverBlock ==
    ppc # "call" /\ parser = "plan_parsing" =>
        /\ \A j \in WellFormedAt :
              ViolatesNaming(Analyzer(context), StripFile(plan_text[j].file)) =>
                  /\ ppc = "returned"
                  /\ \E k \in DOMAIN parsed : Carries(parsed[k], plan_text[j])
        /\ ppc = "returned" =>
              ViewOf(parsed) = ViewOf(ParseGeneralized(plan_text, Analyzer(CtxEmpty), <<>>).steps)

----------------------------------------------------------------------------
(* Context compilation: preprocess_codebase, lightly_preprocess_files and  *)
(* the slice generate_plan takes of the context.                           *)
(*                                                                         *)
(* A path is its text, the length of its form relative to /workspace/, the *)
(* keywords of classify_file and of IGNORE_PATTERNS that occur in it, the  *)
(* listed suffixes it ends with, its directory (a sequence of names), its  *)
(* base name without extension and its extension. A content is a number   *)
(* of lines of one width, of which the first `important` start with one of *)
(* the keywords lightly_preprocess_files looks for, the number of tokens   *)
(* tiktoken counts in it, and the relative paths its import lines quote.   *)
(* A relative import is the number of ".." it climbs, the directories it   *)
(* then enters and the name it ends with. A compiled text is a sequence of *)
(* segments with their lengths in characters.                              *)

MaxFiles == 2

MAX_FILE_LENGTH == 50000

MAX_TOKENS_PER_FILE == 3000

CharsPerToken == 4

FallbackLines == 20

MaxSnippetLines == 30

ContextLimit == 12000

Compilers == {"preprocess_codebase", "lightly_preprocess_files"}

\* the compiler run_agent_flow calls
PipelineCompiler == "lightly_preprocess_files"

IMPORTANT_EXTENSIONS ==
    {".ts", ".tsx", ".js", ".jsx", ".py", ".java", ".go", ".json", ".md"}

IGNORE_PATTERNS ==
    {".test.", "__mocks__", "mock", "node_modules", "dist", "build", ".next"}

PRIORITY_ORDER ==
    <<"API Route", "Authentication", "Dashboard Page", "Login Page",
      "Visualization", "Utilities", "Middleware", "Configuration",
      "Source Code", "Stylesheet", "Git Hook", "Test File", "Documentation">>

PathOf(text, rel_len, has, ends, ext) ==
    [text |-> text, rel_len |-> rel_len, has |-> has, ends |-> ends, ext |-> ext,
     dir |-> <<>>, stem |-> ""]

In(p, dir, stem) == [p EXCEPT !.dir = dir, !.stem = stem]

CompilePaths ==
    { In(PathOf("/workspace/app/page.tsx", 12, {}, {}, ".tsx"), <<"app">>, "page"),
      In(PathOf("/workspace/app/page.ts", 11, {}, {}, ".ts"), <<"app">>, "page"),
      In(PathOf("/workspace/app/api/users/route.ts", 22, {"api"}, {}, ".ts"),
         <<"app", "api", "users">>, "route"),
      In(PathOf("/workspace/src/utils.test.ts", 17, {"test", ".test.", "utils"}, {}, ".ts"),
         <<"src">>, "utils.test"),
      In(PathOf("/workspace/app/api/config.json", 19, {"api"}, {".json"}, ".json"),
         <<"app", "api">>, "config"),
      In(PathOf("/workspace/src/utils/settings.json", 23, {"utils"}, {".json"}, ".json"),
         <<"src", "utils">>, "settings") }

ContentOf(lines, width, important, encoded) ==
    [lines |-> lines, width |-> width, important |-> important, encoded |-> encoded,
     imports |-> <<>>]

Import(ups, downs, stem) == [ups |-> ups, downs |-> downs, stem |-> stem]

\* import lines quoting "./page", "../app/page" and "./missing"
Importing(c) ==
    [c EXCEPT !.imports = << Import(0, <<>>, "page"), Import(1, <<"app">>, "page"),
                             Import(0, <<>>, "missing") >>]

CompileContents ==
    { ContentOf(1, 10, 0, 3),
      ContentOf(40, 299, 40, 2900),
      ContentOf(40, 1200, 40, 2900),
      ContentOf(40, 1300, 0, 3100),
      ContentOf(1, 50000, 0, 3000),
      ContentOf(1, 12000, 0, 2000),
      Importing(ContentOf(3, 30, 3, 30)) }

\* the lengths the stack knowledge text can have: "" when it cannot be read
StackLens == {0, 700}

Entries == [path : CompilePaths, content : CompileContents]

\* a dict: no path twice
CodeMaps ==
    { m \in UNION { [1..n -> Entries] : n \in 0..MaxFiles } :
        \A j, k \in DOMAIN m : j # k => m[j].path # m[k].path }

\* len(text) of `n` lines of `width` characters joined by newlines
TextLen(n, width) == IF n = 0 THEN 0 ELSE n * width + (n - 1)

Size(c) == TextLen(c.lines, c.width)

\* a classification that tries every role keyword before the extensions
classify_file_roles_first(p) ==
    IF p.has \cap {"test", ".test.", "_test"} # {} THEN "Test File"
    ELSE IF "login" \in p.has THEN "Login Page"
    ELSE IF "dashboard" \in p.has THEN "Dashboard Page"
    ELSE IF "api" \in p.has THEN "API Route"
    ELSE IF "auth" \in p.has THEN "Authentication"
    ELSE IF "hooks/" \in p.has THEN "Git Hook"
    ELSE IF "charts/" \in p.has THEN "Visualization"
    ELSE IF p.has \cap {"utils", "helper"} # {} THEN "Utilities"
    ELSE IF "middleware" \in p.has THEN "Middleware"
    ELSE IF p.ends \cap {".env", ".env.local", ".env.production"} # {} THEN "Configuration"
    ELSE IF p.ends \cap {".json", ".config.js", ".config.ts"} # {} THEN "Configuration"
    ELSE IF p.ends \cap {".css", ".scss"} # {} THEN "Stylesheet"
    ELSE IF ".md" \in p.ends THEN "Documentation"
    ELSE "Source Code"

classify_file(p) ==
    IF p.has \cap {"test", ".test.", "_test"} # {} THEN "Test File"
    ELSE IF "login" \in p.has THEN "Login Page"
    ELSE IF "dashboard" \in p.has THEN "Dashboard Page"
    ELSE IF "api" \in p.has THEN "API Route"
    ELSE IF "auth" \in p.has THEN "Authentication"
    ELSE IF "hooks/" \in p.has THEN "Git Hook"
    ELSE IF "charts/" \in p.has THEN "Visualization"
    ELSE IF p.ends \cap {".env", ".env.local", ".env.production"} # {} THEN "Configuration"
    ELSE IF p.ends \cap {".json", ".config.js", ".config.ts"} # {} THEN "Configuration"
    ELSE IF p.ends \cap {".css", ".scss"} # {} THEN "Stylesheet"
    ELSE IF ".md" \in p.ends THEN "Documentation"
    ELSE IF p.has \cap {"utils", "helper"} # {} THEN "Utilities"
    ELSE IF "middleware" \in p.has THEN "Middleware"
    ELSE "Source Code"

get_priority_score(p) ==
    LET label == classify_file(p)
    IN  IF \E r \in DOMAIN PRIORITY_ORDER : PRIORITY_ORDER[r] = label
        THEN (CHOOSE r \in DOMAIN PRIORITY_ORDER : PRIORITY_ORDER[r] = label) - 1
        ELSE Len(PRIORITY_ORDER)

estimate_tokens(tok, c) ==
    IF tok = "tiktoken" THEN c.encoded ELSE Size(c) \div CharsPerToken

\* a filter that also turns away a file that is exactly at a ceiling
should_include_file_below(tok, p, c) ==
    IF p.has \cap IGNORE_PATTERNS # {} THEN FALSE
    ELSE IF Size(c) >= MAX_FILE_LENGTH THEN FALSE
    ELSE IF estimate_tokens(tok, c) >= MAX_TOKENS_PER_FILE THEN FALSE
    ELSE IF classify_file(p) = "Test File" THEN FALSE
    ELSE p.ext \in IMPORTANT_EXTENSIONS

should_include_file(tok, p, c) ==
    IF p.has \cap IGNORE_PATTERNS # {} THEN FALSE
    ELSE IF Size(c) > MAX_FILE_LENGTH THEN FALSE
    ELSE IF estimate_tokens(tok, c) > MAX_TOKENS_PER_FILE THEN FALSE
    ELSE IF classify_file(p) = "Test File" THEN FALSE
    ELSE p.ext \in IMPORTANT_EXTENSIONS

\* a sort that puts a file before the files of its own priority
InsertBeforeEquals(s, e) ==
    LET r == get_priority_score(e.path)
        Before(x) == get_priority_score(x.path) < r
        After(x) == get_priority_score(x.path) >= r
    IN  SelectSeq(s, Before) \o <<e>> \o SelectSeq(s, After)

\* sorted(code_map.items(), key=get_priority_score) is a stable sort: a
\* file goes after the files of lower or equal score that precede it
Insert(s, e) ==
    LET r == get_priority_score(e.path)
        Before(x) == get_priority_score(x.path) <= r
        After(x) == get_priority_score(x.path) > r
    IN  SelectSeq(s, Before) \o <<e>> \o SelectSeq(s, After)

RECURSIVE sorted_files(_)
sorted_files(m) ==
    IF m = <<>> THEN <<>>
    ELSE Insert(sorted_files(SubSeq(m, 1, Len(m) - 1)), m[Len(m)])

\* extract_imports: the quoted relative paths of the import lines
extract_imports(p, c) ==
    IF p.ext \in {".ts", ".tsx", ".js", ".jsx", ".py"} THEN c.imports ELSE <<>>

\* the order in which preprocess_codebase tries the extensions
ImportExtensions == <<".ts", ".tsx", ".js", ".jsx", ".py">>

\* the key of a file in path_map: its path relative to /workspace/
RelKey(p) == [dir |-> p.dir, name |-> p.stem, ext |-> p.ext]

PossibleFromRoot(dir, imp) == [above |-> FALSE, dir |-> imp.downs, name |-> imp.stem]

\* os.path.normpath(os.path.join(os.path.dirname(rel_path), imp)); a path
\* climbing above the root keeps its ".." and is the key of no file
Possible(dir, imp) ==
    IF imp.ups > Len(dir) THEN [above |-> TRUE, dir |-> <<>>, name |-> imp.stem]
    ELSE [above |-> FALSE, dir |-> SubSeq(dir, 1, Len(dir) - imp.ups) \o imp.downs,
          name |-> imp.stem]

\* the files of the mapping with key possible + ext
Named(m, poss, ext) ==
    {k \in DOMAIN m :
        ~poss.above /\ RelKey(m[k].path) = [dir |-> poss.dir, name |-> poss.name, ext |-> ext]}

Hits(m, poss) == {x \in DOMAIN ImportExtensions : Named(m, poss, ImportExtensions[x]) # {}}

RECURSIVE TargetsOf(_, _, _)
TargetsOf(m, poss, xs) ==
    IF xs = {} THEN <<>>
    ELSE LET x == CHOOSE x \in xs : \A y \in xs : x <= y
             k == CHOOSE k \in Named(m, poss, ImportExtensions[x]) : TRUE
         IN  <<m[k].path.text>> \o TargetsOf(m, poss, xs \ {x})

ProbeAll(m, poss) == TargetsOf(m, poss, Hits(m, poss))

\* the loop over the extensions: the first known file, then break
Probe(m, poss) ==
    IF Hits(m, poss) = {} THEN <<>>
    ELSE TargetsOf(m, poss, {CHOOSE x \in Hits(m, poss) : \A y \in Hits(m, poss) : x <= y})

RECURSIVE resolved_imports(_, _, _)
resolved_imports(m, dir, imps) ==
    IF imps = <<>> THEN <<>>
    ELSE Probe(m, Possible(dir, Head(imps))) \o resolved_imports(m, dir, Tail(imps))

Segment(kind, path, len) ==
    [kind |-> kind, path |-> path, len |-> len, cut |-> FALSE, label |-> ""]

\* build_file_block: the stripped content of the file between its labels;
\* the segment counts the content only, so it is no longer than the block
build_file_block(p, c) ==
    [Segment("file", p.text, Size(c)) EXCEPT !.label = classify_file(p)]

\* lightly_preprocess_files: the lines kept of a file
SnippetLines(c) ==
    IF c.important = 0
    THEN (IF c.lines < FallbackLines THEN c.lines ELSE FallbackLines)
    ELSE (IF c.important < MaxSnippetLines THEN c.important ELSE MaxSnippetLines)

\* "### FILE: " + rel_path + "\n```tsx\n" + snippet + "\n```\n"
Section(p, c) ==
    Segment("file", p.text, 10 + p.rel_len + 8 + TextLen(SnippetLines(c), c.width) + 5)

\* "\n\n".join(...) and "\n---\n".join(...)
RECURSIVE Join(_, _)
Join(blocks, seplen) ==
    IF Len(blocks) <= 1 THEN blocks
    ELSE <<Head(blocks), Segment("join", "", seplen)>> \o Join(Tail(blocks), seplen)

RECURSIVE TotalLen(_)
TotalLen(segs) == IF segs = <<>> THEN 0 ELSE Head(segs).len + TotalLen(Tail(segs))

\* stack_context + "\n\n" + codebase_context
Combined(slen, segs) ==
    (IF slen = 0 THEN <<>> ELSE <<Segment("stack", "", slen)>>)
    \o <<Segment("join", "", 2)>> \o segs

\* text[:n] on a sequence of segments: the segment holding position n is cut
RECURSIVE Slice(_, _)
Slice(segs, n) ==
    IF segs = <<>> \/ n <= 0 THEN <<>>
    ELSE IF Head(segs).len <= n
         THEN <<Head(segs)>> \o Slice(Tail(segs), n - Head(segs).len)
         ELSE <<[Head(segs) EXCEPT !.len = n, !.cut = TRUE]>>

InitCompile ==
    /\ executor = "apply_llm_plan_to_code"
    /\ steps = <<>>
    /\ sandbox = EmptyMap
    /\ current_code = EmptyMap
    /\ i = 1
    /\ pc = "idle"
    /\ original_code = <<>>
    /\ new_code = <<>>
    /\ modified_files = EmptyMap
    /\ trace = <<>>
    /\ reply = NoReply
    /\ review = NoReview
    /\ rpc = "idle"
    /\ parser = "none"
    /\ context = ""
    /\ plan_text = <<>>
    /\ parsed = <<>>
    /\ ppc = "idle"
    /\ compiler \in Compilers
    /\ tokenizer \in (IF compiler = PipelineCompiler THEN {"none"} ELSE {"none", "tiktoken"})
    /\ code_map \in CodeMaps
    /\ stack_len \in (IF compiler = PipelineCompiler THEN StackLens ELSE {0})
    /\ ci = 1
    /\ file_blocks = <<>>
    /\ skipped_files = <<>>
    /\ total_chars = 0
    /\ digest = <<>>
    /\ handed = <<>>
    /\ dependency_graph = EmptyMap
    /\ cpc = "loop"
    /\ fpc = "idle"
    /\ live = "none"
    /\ enable_modifications = FALSE
    /\ github_token = FALSE
    /\ stream = <<>>
    /\ extracted_files = EmptyMap
    /\ remote = NoRemote

\* one iteration of preprocess_codebase's loop over the sorted files
PC_File ==
    /\ compiler = "preprocess_codebase"
    /\ cpc = "loop"
    /\ ci <= Len(code_map)
    /\ LET e == sorted_files(code_map)[ci]
           r == resolved_imports(code_map, e.path.dir, extract_imports(e.path, e.content))
       IN  IF should_include_file(tokenizer, e.path, e.content)
           THEN /\ file_blocks' = Append(file_blocks, build_file_block(e.path, e.content))
                /\ total_chars' = total_chars + Size(e.content)
                /\ dependency_graph' =
                       IF r # <<>> THEN Put(dependency_graph, e.path.text, r)
                       ELSE dependency_graph
                /\ UNCHANGED skipped_files
           ELSE /\ skipped_files' = Append(skipped_files, e.path.text)
                /\ UNCHANGED <<file_blocks, total_chars, dependency_graph>>
    /\ ci' = ci + 1
    /\ UNCHANGED <<compiler, tokenizer, code_map, stack_len, digest, handed, cpc>>
    /\ UNCHANGED <<execVars, reviewVars, parseVars, flowVars>>

\* the result: the summary sections, then the blocks joined by "\n---\n";
\* the digest counts the blocks and their separators only
PC_Return ==
    /\ compiler = "preprocess_codebase"
    /\ cpc = "loop"
    /\ ci > Len(code_map)
    /\ digest' = Join(file_blocks, 5)
    /\ cpc' = "returned"
    /\ UNCHANGED <<compiler, tokenizer, code_map, stack_len, ci, file_blocks,
                   skipped_files, total_chars, handed>>
    /\ UNCHANGED <<execVars, reviewVars, parseVars, flowVars>>
    /\ UNCHANGED dependency_graph

\* one iteration of lightly_preprocess_files's loop over the mapping
LF_File ==
    /\ compiler = "lightly_preprocess_files"
    /\ cpc = "loop"
    /\ ci <= Len(code_map)
    /\ file_blocks' = Append(file_blocks, Section(code_map[ci].path, code_map[ci].content))
    /\ ci' = ci + 1
    /\ UNCHANGED <<compiler, tokenizer, code_map, stack_len, skipped_files,
                   total_chars, digest, handed, cpc>>
    /\ UNCHANGED <<execVars, reviewVars, parseVars, flowVars>>
    /\ UNCHANGED dependency_graph

LF_Return ==
    /\ compiler = "lightly_preprocess_files"
    /\ cpc = "loop"
    /\ ci > Len(code_map)
    /\ digest' = Join(file_blocks, 2)
    /\ cpc' = "returned"
    /\ UNCHANGED <<compiler, tokenizer, code_map, stack_len, ci, file_blocks,
                   skipped_files, total_chars, handed>>
    /\ UNCHANGED <<execVars, reviewVars, parseVars, flowVars>>
    /\ UNCHANGED dependency_graph

\* run_agent_flow prepends the stack knowledge and calls generate_plan,
\* which puts codebase_summary[:12000] in the prompt
GeneratePlan ==
    /\ compiler = PipelineCompiler
    /\ cpc = "returned"
    /\ handed' = Slice(Combined(stack_len, digest), ContextLimit)
    /\ cpc' = "handed"
    /\ UNCHANGED <<compiler, tokenizer, code_map, stack_len, ci, file_blocks,
                   skipped_files, total_chars, digest>>
    /\ UNCHANGED <<execVars, reviewVars, parseVars, flowVars>>
    /\ UNCHANGED dependency_graph

NextCompile == PC_File \/ PC_Return \/ LF_File \/ LF_Return \/ GeneratePlan

SpecCompile == InitCompile /\ [][NextCompile]_vars

----------------------------------------------------------------------------
(* Properties of context compilation (checked under SpecCompile) *)

FileSegments(segs) == {k \in DOMAIN segs : segs[k].kind = "file"}

LargestBlock(segs) ==
    IF FileSegments(segs) = {} THEN 0
    ELSE LET k == CHOOSE k \in FileSegments(segs) :
                      \A k2 \in FileSegments(segs) : segs[k2].len <= segs[k].len
         IN  segs[k].len

\* C19: the compiled digest is never longer than the total limit plus one
\* whole file block.
C19_DigestWithinBudget ==
    cpc \in {"returned", "handed"} =>
        TotalLen(digest) <= ContextLimit + LargestBlock(digest)

\* C20: every file block of the context put in the plan prompt is whole:
\* no block is cut.
C20_NoBlockCut ==
    cpc = "handed" => \A k \in FileSegments(handed) : ~handed[k].cut

(***************************************************************************)
(* The inclusion filter of preprocess_codebase                             *)
(***************************************************************************)
Digested == compiler = "preprocess_codebase" /\ cpc = "returned"

HasBlock(e) == \E k \in DOMAIN file_blocks : file_blocks[k].path = e.path.text

IsSkipped(e) == \E k \in DOMAIN skipped_files : skipped_files[k] = e.path.text

NotIgnored(e) == e.path.has \cap IGNORE_PATTERNS = {}

NotTest(e) == classify_file(e.path) # "Test File"

Tokens(e) == estimate_tokens(tokenizer, e.content)

StrictlyBelow(e) ==
    /\ NotIgnored(e)
    /\ Size(e.content) < MAX_FILE_LENGTH
    /\ Tokens(e) < MAX_TOKENS_PER_FILE
    /\ NotTest(e)

AtMost(e) ==
    /\ NotIgnored(e)
    /\ Size(e.content) <= MAX_FILE_LENGTH
    /\ Tokens(e) <= MAX_TOKENS_PER_FILE
    /\ NotTest(e)

\* C21 as stated: a file has a block in the digest only if no ignore pattern
\* occurs in its path, its length is strictly below the character ceiling,
\* its token estimate is strictly below the token ceiling and it is not a
\* test file; a file failing one of the four (a length or an estimate equal
\* to its ceiling included) has no block and is in the skipped list.
C21_InclusionFilter ==
    Digested =>
        \A k \in DOMAIN code_map :
            /\ HasBlock(code_map[k]) => StrictlyBelow(code_map[k])
            /\ ~StrictlyBelow(code_map[k]) =>
                   ~HasBlock(code_map[k]) /\ IsSkipped(code_map[k])

\* C21 amended: the ceilings are inclusive. A file has a block in the digest
\* exactly if no ignore pattern occurs in its path, its length is at most
\* the character ceiling, its token estimate is at most the token ceiling,
\* it is not a test file and its extension is one of the listed ones; every
\* other file has no block and is in the skipped list.
C21_InclusionFilterInclusive ==
    Digested =>
        \A k \in DOMAIN code_map :
            LET e == code_map[k]
                ok == AtMost(e) /\ e.path.ext \in IMPORTANT_EXTENSIONS
            IN  /\ HasBlock(e) <=> ok
                /\ IsSkipped(e) <=> ~ok

\* a file exactly at both ceilings is in the digest, one above is skipped
C21_Witness ==
    /\ Digested
    /\ \E j, k \in DOMAIN code_map :
          /\ HasBlock(code_map[j])
          /\ Size(code_map[j].content) = MAX_FILE_LENGTH
          /\ Tokens(code_map[j]) = MAX_TOKENS_PER_FILE
          /\ IsSkipped(code_map[k])
          /\ NotIgnored(code_map[k]) /\ NotTest(code_map[k])
          /\ Tokens(code_map[k]) > MAX_TOKENS_PER_FILE

(***************************************************************************)
(* The order of the digest                                                 *)
(***************************************************************************)
PosOf(text) == CHOOSE k \in DOMAIN code_map : code_map[k].path.text = text

ScoreOf(text) == get_priority_score(code_map[PosOf(text)].path)

\* C22: the blocks of the digest are in ascending priority rank, and two
\* files of equal priority keep the order they have in the input mapping.
C22_DigestOrdered ==
    compiler = "preprocess_codebase" =>
        \A j, k \in DOMAIN file_blocks :
            j < k =>
                \/ ScoreOf(file_blocks[j].path) < ScoreOf(file_blocks[k].path)
                \/ /\ ScoreOf(file_blocks[j].path) = ScoreOf(file_blocks[k].path)
                   /\ PosOf(file_blocks[j].path) < PosOf(file_blocks[k].path)

\* a digest of two files of equal priority
C22_Witness ==
    /\ Digested
    /\ \E j, k \in DOMAIN file_blocks :
          /\ j < k
          /\ ScoreOf(file_blocks[j].path) = ScoreOf(file_blocks[k].path)

(***************************************************************************)
(* The dependency graph                                                    *)
(***************************************************************************)
Probed == {ImportExtensions[x] : x \in DOMAIN ImportExtensions}

\* joining the import to the directory of the importer and appending the
\* extension `ext` gives the path of the file f
NamesWith(e, imp, ext, f) ==
    /\ imp.ups <= Len(e.path.dir)
    /\ f.path.dir = SubSeq(e.path.dir, 1, Len(e.path.dir) - imp.ups) \o imp.downs
    /\ f.path.stem = imp.stem
    /\ f.path.ext = ext

Names(e, imp, f) == \E ext \in Probed : NamesWith(e, imp, ext, f)

ImportsOf(e) == {e.content.imports[x] : x \in DOMAIN extract_imports(e.path, e.content)}

Known == {code_map[k] : k \in DOMAIN code_map}

EdgesOf(e) ==
    IF e.path.text \in DOMAIN dependency_graph
    THEN {dependency_graph[e.path.text][x] : x \in DOMAIN dependency_graph[e.path.text]}
    ELSE {}

\* every resolvable import of e has an edge, and e has no other edge
Resolved(e) ==
    /\ \A imp \in ImportsOf(e) :
          (\E f \in Known : Names(e, imp, f)) =>
              \E f \in Known : Names(e, imp, f) /\ f.path.text \in EdgesOf(e)
    /\ \A t \in EdgesOf(e) :
          \E imp \in ImportsOf(e), f \in Known : Names(e, imp, f) /\ f.path.text = t

\* C23 as stated: for every importing file of the known file set and every
\* relative import of it, the graph has the edge to the file the import
\* names with one of the extensions, and no edge for an import that names
\* no known file.
C23_EveryImporterResolved ==
    Digested => \A e \in Known : Resolved(e)

\* C23 amended: the importers are the files that pass the inclusion filter.
\* For each of them every resolvable import has its edge and there is no
\* other edge; a file that is skipped has no edges at all, whatever it
\* imports; no import raises an error.
C23_IncludedImporterResolved ==
    Digested =>
        \A e \in Known :
            IF HasBlock(e) THEN Resolved(e) ELSE EdgesOf(e) = {}

\* an included file with one import that resolves and one that does not
C23_Witness ==
    /\ Digested
    /\ \E e \in Known :
          /\ HasBlock(e)
          /\ EdgesOf(e) # {}
          /\ \E imp \in ImportsOf(e) : \A f \in Known : ~Names(e, imp, f)

EdgeList(e) ==
    IF e.path.text \in DOMAIN dependency_graph THEN dependency_graph[e.path.text] ELSE <<>>

Resolvable(e) ==
    {x \in DOMAIN extract_imports(e.path, e.content) :
        \E f \in Known : Names(e, e.content.imports[x], f)}

\* the file the import names with the earliest extension that names one
IsEarliest(e, imp, f) ==
    \E x \in DOMAIN ImportExtensions :
        /\ NamesWith(e, imp, ImportExtensions[x], f)
        /\ \A y \in 1..(x - 1), g \in Known : ~NamesWith(e, imp, ImportExtensions[y], g)

\* C24: the extensions are tried in the configured order and the search
\* stops at the first known file: an import gives at most one edge, and
\* when several extensions name known files the edge goes to the file of
\* the earliest extension.
C24_FirstExtensionWins ==
    Digested =>
        \A e \in Known :
            /\ Len(EdgeList(e)) <= Cardinality(Resolvable(e))
            /\ \A t \in EdgesOf(e) :
                  \E imp \in ImportsOf(e), f \in Known :
                      IsEarliest(e, imp, f) /\ f.path.text = t

\* an import that two files of the mapping could satisfy has its edge
C24_Witness ==
    /\ Digested
    /\ \E e \in Known :
          /\ EdgesOf(e) # {}
          /\ \E imp \in ImportsOf(e), f, g \in Known :
                f # g /\ Names(e, imp, f) /\ Names(e, imp, g)

(***************************************************************************)
(* The classification of a path                                            *)
(***************************************************************************)
IsTestPath(p) == p.has \cap {"test", ".test.", "_test"} # {}

\* the role keywords classify_file tries before the extensions, in order
EarlyRoles ==
    << <<"login", "Login Page">>, <<"dashboard", "Dashboard Page">>, <<"api", "API Route">>,
       <<"auth", "Authentication">>, <<"hooks/", "Git Hook">>, <<"charts/", "Visualization">> >>

\* the role keywords it tries after the extensions
LateRoles == {"utils", "helper", "middleware"}

HasEarlyRole(p) == \E x \in DOMAIN EarlyRoles : EarlyRoles[x][1] \in p.has

HasLateRole(p) == p.has \cap LateRoles # {}

EarlyRoleLabel(p) ==
    EarlyRoles[CHOOSE x \in DOMAIN EarlyRoles :
                  /\ EarlyRoles[x][1] \in p.has
                  /\ \A y \in 1..(x - 1) : EarlyRoles[y][1] \notin p.has][2]

LateRoleLabel(p) == IF p.has \cap {"utils", "helper"} # {} THEN "Utilities" ELSE "Middleware"

HasKindExt(p) ==
    p.ends \cap {".env", ".env.local", ".env.production", ".json", ".config.js",
                 ".config.ts", ".css", ".scss", ".md"} # {}

KindLabel(p) ==
    IF p.ends \cap {".env", ".env.local", ".env.production", ".json", ".config.js",
                    ".config.ts"} # {} THEN "Configuration"
    ELSE IF p.ends \cap {".css", ".scss"} # {} THEN "Stylesheet"
    ELSE "Documentation"

\* the label of the block of a file that has one agrees with `label`
Labelled(e, label) ==
    /\ classify_file(e.path) = label
    /\ \A k \in DOMAIN file_blocks :
          file_blocks[k].path = e.path.text => file_blocks[k].label = label

\* C25 as stated: every path gets exactly one label, by the first rule that
\* matches in the order test, role keywords (route, auth, utility,
\* middleware and the others), extension (configuration, style,
\* documentation), generic source: a test path is a test file whatever else
\* it matches, and a path with a role keyword and a configuration, style or
\* documentation extension gets the label of the role.
C25_RolesBeforeExtensions ==
    Digested =>
        \A e \in Known :
            Labelled(e, IF IsTestPath(e.path) THEN "Test File"
                        ELSE IF HasEarlyRole(e.path) THEN EarlyRoleLabel(e.path)
                        ELSE IF HasLateRole(e.path) THEN LateRoleLabel(e.path)
                        ELSE IF HasKindExt(e.path) THEN KindLabel(e.path)
                        ELSE "Source Code")

\* C25 amended: the order is test, then the role keywords login, dashboard,
\* api, auth, hooks/ and charts/, then the extensions, then the role
\* keywords utils, helper and middleware, then generic source. A test path
\* is a test file whatever else it matches; a path with one of the first
\* role keywords and a configuration, style or documentation extension
\* gets the label of the role; a path with only a utility or middleware
\* keyword and such an extension gets the label of the extension.
C25_ExtensionsBeforeLateRoles ==
    Digested =>
        \A e \in Known :
            Labelled(e, IF IsTestPath(e.path) THEN "Test File"
                        ELSE IF HasEarlyRole(e.path) THEN EarlyRoleLabel(e.path)
                        ELSE IF HasKindExt(e.path) THEN KindLabel(e.path)
                        ELSE IF HasLateRole(e.path) THEN LateRoleLabel(e.path)
                        ELSE "Source Code")

\* the digest holds a block of a utility path with a configuration
\* extension, and one of a route path with a configuration extension
C25_Witness ==
    /\ Digested
    /\ \E e, f \in Known :
          /\ HasBlock(e) /\ HasLateRole(e.path) /\ HasKindExt(e.path)
          /\ HasBlock(f) /\ HasEarlyRole(f.path) /\ HasKindExt(f.path)

(***************************************************************************)
(* run_agent_flow (agent_flow.py). The flow is an async generator: it runs *)
(* from one yield to the next when its consumer asks for the next entry,   *)
(* and the consumer may stop asking after any entry. fpc is the entry the  *)
(* generator is suspended at. The plan is applied by apply_llm_plan_to_code*)
(* with the actions LP_Prepare .. LP_Return above. The plan paths are "a"  *)
(* (app/page.tsx) and "b" (app/api/users/route.ts).                        *)
(***************************************************************************)
Step(action, file) == [action |-> action, file |-> file]

\* what the generated plan may parse to
FlowPlans ==
    { <<>>,
      <<Step("modify", "a")>>,
      <<Step("delete", "a")>>,
      <<Step("rename", "a")>>,
      <<Step("create", "b"), Step("modify", "b")>>,
      <<Step("create", "b"), Step("delete", "b")>>,
      <<Step("modify", "a"), Step("create", "b")>> }

\* the entries of lines 29-100 in order: each is followed by the next one
\* unless the work between them raises
Chain ==
    <<"cloned", "tree", "tree_done", "stack", "stack_done", "relevant",
      "relevant_done", "reading", "read_done", "preprocessing", "preprocessed",
      "planning", "planned", "parsing", "parsed", "applying">>

\* the entries followed by a call that can raise into the except clause of
\* line 186: get_file_tree, get_relevant_files_from_prompt, the debug file
\* of the preprocessing, generate_plan
MayRaise == {"tree", "relevant", "preprocessing", "planning"}

Emit(entry) ==
    /\ stream' = Append(stream, entry)
    /\ fpc' = entry

\* git_sync.extract_modified_files: the files of the create and modify
\* steps that can be read from the sandbox
extract_modified_files(sb, sts) ==
    [p \in {sts[k].file : k \in {j \in DOMAIN sts : sts[j].action \in {"create", "modify"}}}
            \cap DOMAIN sb |-> sb[p]]

InitFlow ==
    /\ executor = "apply_llm_plan_to_code"
    /\ steps = <<>>
    /\ sandbox = EmptyMap
    /\ current_code = EmptyMap
    /\ i = 1
    /\ pc = "idle"
    /\ original_code = <<>>
    /\ new_code = <<>>
    /\ modified_files = EmptyMap
    /\ trace = <<>>
    /\ reply = NoReply
    /\ review = NoReview
    /\ rpc = "idle"
    /\ parser = "none"
    /\ context = ""
    /\ plan_text = <<>>
    /\ parsed = <<>>
    /\ ppc = "idle"
    /\ compiler = "none"
    /\ tokenizer = "none"
    /\ code_map = <<>>
    /\ stack_len = 0
    /\ ci = 1
    /\ file_blocks = <<>>
    /\ skipped_files = <<>>
    /\ total_chars = 0
    /\ digest = <<>>
    /\ handed = <<>>
    /\ dependency_graph = EmptyMap
    /\ cpc = "idle"
    /\ fpc = "new"
    /\ live = "none"
    /\ enable_modifications \in BOOLEAN
    /\ github_token \in BOOLEAN
    /\ stream = <<>>
    /\ extracted_files = EmptyMap
    /\ remote = NoRemote

\* lines 24-27: the first entry
F_Begin ==
    /\ fpc = "new"
    /\ Emit("cloning")
    /\ UNCHANGED <<live, enable_modifications, github_token, extracted_files, remote>>
    /\ UNCHANGED <<execVars, reviewVars, parseVars, compileVars>>

\* line 28: clone_repo_in_sandbox returns the sandbox, or raises after it
\* created one (sandbox.py 13, 26, 39) so that `sandbox` stays None, or
\* fails to create one
F_Clone ==
    /\ fpc = "cloning"
    /\ \/ \E repo \in {{"a"}, {"a", "b"}} :
            /\ sandbox' = [p \in repo |-> Original]
            /\ live' = "running"
            /\ Emit("cloned")
       \/ /\ live' = "orphaned"
          /\ Emit("error")
          /\ UNCHANGED sandbox
       \/ /\ Emit("error")
          /\ UNCHANGED <<sandbox, live>>
    /\ UNCHANGED <<enable_modifications, github_token, extracted_files, remote>>
    /\ UNCHANGED <<executor, steps, current_code, i, pc, original_code, new_code,
                   modified_files, trace>>
    /\ UNCHANGED <<reviewVars, parseVars, compileVars>>

\* lines 29-100 without the reading and the parsing: file tree, stack
\* knowledge, relevant files, preprocessing, plan generation. The stack
\* knowledge phase has its own except clause (lines 37-54) and goes on
\* either way; the file it writes is named by no plan path
F_Step ==
    /\ fpc \notin {"reading", "parsing"}
    /\ \/ \E k \in 1..(Len(Chain) - 1) :
            /\ \/ fpc = Chain[k]
               \/ fpc = "stack_failed" /\ Chain[k] = "stack_done"
            /\ Emit(Chain[k + 1])
       \/ /\ fpc = "stack"
          /\ Emit("stack_failed")
       \/ /\ fpc \in MayRaise
          /\ Emit("error")
    /\ UNCHANGED <<live, enable_modifications, github_token, extracted_files, remote>>
    /\ UNCHANGED <<execVars, reviewVars, parseVars, compileVars>>

\* line 63: read_selected_files reads the files the model selected and
\* leaves out the ones it cannot read
F_Read ==
    /\ fpc = "reading"
    /\ \E R \in SUBSET DOMAIN sandbox : current_code' = [p \in R |-> sandbox[p]]
    /\ Emit("read_done")
    /\ UNCHANGED <<live, enable_modifications, github_token, extracted_files, remote>>
    /\ UNCHANGED <<executor, steps, sandbox, i, pc, original_code, new_code,
                   modified_files, trace>>
    /\ UNCHANGED <<reviewVars, parseVars, compileVars>>

\* line 96: the steps the generated plan parses to
F_Parse ==
    /\ fpc = "parsing"
    /\ steps' \in FlowPlans
    /\ Emit("parsed")
    /\ UNCHANGED <<live, enable_modifications, github_token, extracted_files, remote>>
    /\ UNCHANGED <<executor, sandbox, current_code, i, pc, original_code, new_code,
                   modified_files, trace>>
    /\ UNCHANGED <<reviewVars, parseVars, compileVars>>

\* line 101: the call of apply_llm_plan_to_code, whatever
\* enable_modifications says
F_Apply ==
    /\ fpc = "applying"
    /\ fpc' = "in_apply"
    /\ pc' = "loop"
    /\ i' = 1
    /\ modified_files' = EmptyMap
    /\ UNCHANGED <<live, enable_modifications, github_token, stream, extracted_files, remote>>
    /\ UNCHANGED <<executor, steps, sandbox, current_code, original_code, new_code, trace>>
    /\ UNCHANGED <<reviewVars, parseVars, compileVars>>

\* lines 101-102 and 186-187: the call returned, or an exception left it
F_Applied ==
    /\ fpc = "in_apply"
    /\ \/ pc = "done" /\ Emit("applied")
       \/ pc = "raised" /\ Emit("error")
    /\ UNCHANGED <<live, enable_modifications, github_token, extracted_files, remote>>
    /\ UNCHANGED <<execVars, reviewVars, parseVars, compileVars>>

\* lines 104-114: the download of the modified files, in its own try
F_Download ==
    /\ \/ /\ fpc = "applied"
          /\ IF DOMAIN modified_files # {} THEN Emit("downloading")
             ELSE Emit("none_modified")
       \/ /\ fpc = "downloading"
          /\ Emit("downloaded") \/ Emit("download_failed")
       \/ /\ fpc = "downloaded"
          /\ Emit("summary")
    /\ UNCHANGED <<live, enable_modifications, github_token, extracted_files, remote>>
    /\ UNCHANGED <<execVars, reviewVars, parseVars, compileVars>>

\* lines 116-122 and 174-178: the git sync starts when there is a token and
\* a modified file
F_Sync ==
    /\ \/ /\ fpc \in {"summary", "download_failed", "none_modified"}
          /\ IF github_token /\ DOMAIN modified_files # {}
             THEN Emit("syncing")
             ELSE IF github_token THEN Emit("skip_sync") ELSE Emit("no_token")
          /\ UNCHANGED extracted_files
       \/ /\ fpc = "no_token"
          /\ Emit("no_token_hint")
          /\ UNCHANGED extracted_files
       \/ /\ fpc = "syncing"
          /\ extracted_files' = extract_modified_files(sandbox, steps)
          /\ Emit("extracted")
    /\ UNCHANGED <<live, enable_modifications, github_token, remote>>
    /\ UNCHANGED <<execVars, reviewVars, parseVars, compileVars>>

\* lines 124-142 and 168-172: default branch, then commit and push of the
\* extracted files (git_sync.py 59-69)
F_Commit ==
    /\ \/ /\ fpc = "extracted"
          /\ IF DOMAIN extracted_files # {}
             THEN Emit("branch") \/ Emit("sync_failed")
             ELSE Emit("nothing_extracted")
          /\ UNCHANGED remote
       \/ /\ fpc = "branch"
          /\ \/ /\ remote' = [remote EXCEPT !.committed = extracted_files,
                                            !.pushed = TRUE]
                /\ Emit("committed")
             \/ /\ Emit("sync_failed")
                /\ UNCHANGED remote
    /\ UNCHANGED <<live, enable_modifications, github_token, extracted_files>>
    /\ UNCHANGED <<execVars, reviewVars, parseVars, compileVars>>

\* lines 145-166: the pull request
F_PullRequest ==
    /\ \/ /\ fpc = "committed"
          /\ Emit("creating_pr")
          /\ UNCHANGED remote
       \/ /\ fpc = "creating_pr"
          /\ \/ /\ remote' = [remote EXCEPT !.pr = TRUE]
                /\ Emit("pr_created")
             \/ /\ Emit("sync_failed")
                /\ UNCHANGED remote
    /\ UNCHANGED <<live, enable_modifications, github_token, extracted_files>>
    /\ UNCHANGED <<execVars, reviewVars, parseVars, compileVars>>

\* lines 189-193: the finally clause announces the cleanup when `sandbox`
\* is set, else the generator ends
Finally ==
    IF live = "running" THEN Emit("cleanup")
    ELSE /\ fpc' = "ended"
         /\ UNCHANGED stream

\* lines 180-184: the closing notices, then the finally clause
F_Notice ==
    /\ \/ /\ fpc \in {"pr_created", "nothing_extracted", "sync_failed", "skip_sync",
                      "no_token_hint"}
          /\ IF ~enable_modifications /\ steps # <<>> THEN Emit("disabled")
             ELSE IF steps = <<>> THEN Emit("no_steps")
             ELSE Finally
       \/ /\ fpc = "disabled"
          /\ Emit("disabled_hint")
       \/ /\ fpc \in {"disabled_hint", "no_steps", "error"}
          /\ Finally
    /\ UNCHANGED <<live, enable_modifications, github_token, extracted_files, remote>>
    /\ UNCHANGED <<execVars, reviewVars, parseVars, compileVars>>

\* lines 193-198: sandbox.kill() after the cleanup entry, in its own try
F_Kill ==
    /\ \/ /\ fpc = "cleanup"
          /\ \/ /\ live' = "killed"
                /\ Emit("terminated")
             \/ /\ Emit("kill_failed")
                /\ UNCHANGED live
       \/ /\ fpc \in {"terminated", "kill_failed"}
          /\ fpc' = "ended"
          /\ UNCHANGED <<live, stream>>
    /\ UNCHANGED <<enable_modifications, github_token, extracted_files, remote>>
    /\ UNCHANGED <<execVars, reviewVars, parseVars, compileVars>>

\* the consumer stops at the entry the generator is suspended at
\* (main.py 21-25): GeneratorExit is raised at that yield. It is no
\* Exception, so no except clause takes it. At the cleanup entry it leaves
\* the generator before sandbox.kill(); before it, the finally clause runs
\* and yields the cleanup entry, which the closing rejects, so the
\* generator stays at line 193 and is never resumed
F_Close ==
    /\ fpc \notin {"new", "in_apply", "ended", "closed", "abandoned"}
    /\ fpc' = IF fpc \notin {"cleanup", "terminated", "kill_failed"} /\ live = "running"
              THEN "abandoned" ELSE "closed"
    /\ UNCHANGED <<live, enable_modifications, github_token, stream, extracted_files, remote>>
    /\ UNCHANGED <<execVars, reviewVars, parseVars, compileVars>>

NextFlow ==
    \/ F_Begin \/ F_Clone \/ F_Step \/ F_Read \/ F_Parse \/ F_Apply
    \/ LP_Prepare \/ LP_Generate \/ LP_Write \/ LP_Return
    \/ F_Applied \/ F_Download \/ F_Sync \/ F_Commit \/ F_PullRequest
    \/ F_Notice \/ F_Kill \/ F_Close

SpecFlow == InitFlow /\ [][NextFlow]_vars

(***************************************************************************)
(* The flow from end to end                                                *)
(***************************************************************************)
Yielded(entry) == \E k \in DOMAIN stream : stream[k] = entry

Over == fpc \in {"ended", "closed", "abandoned"}

\* C26: with app/page.tsx and app/api/users/route.ts in the sandbox and a
\* plan of one modify step on app/page.tsx whose calls all succeed, the log
\* holds an entry of the generation phase, an entry of the review phase and
\* a success entry, and the returned map has exactly the path app/page.tsx.
C26_ModifyEndToEnd ==
    /\ fpc = "applied"
    /\ DOMAIN current_code = {"a", "b"}
    /\ steps = <<Step("modify", "a")>>
    /\ \A k \in DOMAIN trace : trace[k].ok
    => /\ \E k \in DOMAIN trace : trace[k].op = "llm"
       /\ \E k \in DOMAIN trace : trace[k].op = "review"
       /\ \E k \in DOMAIN trace : trace[k].op = "write" /\ trace[k].path = "a"
       /\ DOMAIN modified_files = {"a"}

\* C27: a flow that reached the plan application and ran to its end has
\* reported the applied changes and ends with the cleanup entries, whatever
\* steps failed; a flow that failed in a phase before the plan application
\* has an error entry and has applied no step.
C27_FlowSurvivesStepFailures ==
    /\ fpc = "ended" /\ Yielded("applying") =>
          /\ Yielded("applied")
          /\ Len(stream) >= 2
          /\ stream[Len(stream) - 1] = "cleanup"
          /\ stream[Len(stream)] \in {"terminated", "kill_failed"}
    /\ Yielded("error") /\ ~Yielded("applying") =>
          trace = <<>> /\ modified_files = EmptyMap

\* C28: when the flow is over, by running to its end or because its
\* consumer stopped at any entry (the cleanup entry included), no sandbox
\* it obtained is still running.
C28_SandboxKilledOnEveryEnd ==
    Over => live \in {"none", "killed"}

\* C29: with enable_modifications false no plan step is applied: the model
\* is not asked for code, no write or delete reaches the sandbox, and
\* nothing is committed, pushed or opened as a pull request.
C29_DisabledAppliesNothing ==
    ~enable_modifications /\ fpc # "idle" =>
        /\ \A k \in DOMAIN trace : trace[k].op \notin {"llm", "write", "delete"}
        /\ remote = NoRemote

\* C30: the map apply_llm_plan_to_code returned agrees with the sandbox:
\* each of its paths is a file of the sandbox with the mapped content, so
\* the files extracted for the commit are exactly the paths of the map.
C30_MapAgreesWithSandbox ==
    /\ pc = "done" =>
          \A p \in DOMAIN modified_files :
              p \in DOMAIN sandbox /\ sandbox[p] = modified_files[p]
    /\ fpc = "extracted" => DOMAIN extracted_files = DOMAIN modified_files

====
